---------------------------- MODULE Spec2Model ----------------------------
(***************************************************************************)
(* A model of darksky_soccer.py: the match store reader, the weather       *)
(* aggregator, the match/weather join and the two per-team aggregators.    *)
(*                                                                         *)
(* A pandas DataFrame is a record [columns, rows]: the column names in     *)
(* order and the rows in order, each row a function from the column names. *)
(* A ratio rounded to k decimal digits is kept as the integer number of    *)
(* 10^-k units, with NaN for pandas' NaN and sqlite's NULL.                *)
(***************************************************************************)
EXTENDS Integers, Sequences, FiniteSets, TLC

VARIABLES
    entry,               \* the public function the run entered through
    Matches,             \* the rows of the store's table Matches
    season,              \* argument season
    limit_api_calls,     \* argument limit_api_calls
    pc,                  \* position of the run
    error,               \* the exception that ended the run, or "none"
    match_data,          \* match_rain_data: match_data
    unique_match_dates,  \* match_rain_data: unique_match_dates,
                         \* rain_dates: unique_dates
    pending,             \* rain_dates: dates of set(unique_dates) not yet visited
    data,                \* rain_dates: data
    calls,               \* the dates requested from the weather service, in order
    rain_days,           \* match_rain_data: rain_days (what rain_dates returned)
    enriched,            \* what match_rain_data returned
    rejoined,            \* the enriched table joined with rain_days once more
    pandas_out,          \* what calculate_aggregate_stats_pandas returned
    temp_rain_stats,     \* whether table temp_rain_stats exists in the database
    sqlite_out           \* what calculate_aggregate_stats_sqlite returned

vars == <<entry, Matches, season, limit_api_calls, pc, error, match_data,
          unique_match_dates, pending, data, calls, rain_days, enriched,
          rejoined, pandas_out, temp_rain_stats, sqlite_out>>

---------------------------------------------------------------------------
(* Bounds and input domains *)

MaxRows == 2         \* rows of table Matches
MaxGoals == 3        \* goals scored in one match, both sides together
MaxDates == 3        \* length of a date list handed to rain_dates directly

TeamOrder == <<"A", "B">>                       \* in string order
DivOrder == <<"D1", "E0", "SP1">>               \* in string order
DateOrder == <<"2020-01-01", "2020-01-02", "2020-01-03">>   \* in string order
Seasons == {2011, 2012}

Range(s) == {s[i] : i \in 1..Len(s)}
Teams == Range(TeamOrder)
Dates == Range(DateOrder)
MatchDates == {DateOrder[1], DateOrder[2]}      \* the dates matches are played on

\* The position of x in the ordered sequence s (string comparison)
Rank(s, x) == CHOOSE i \in 1..Len(s) : s[i] = x

\* SELECT * FROM Matches: the columns of the table
MatchColumns == <<"Div", "Season", "Date", "HomeTeam", "AwayTeam", "FTHG", "FTAG">>

Scores == {sc \in (0..MaxGoals) \X (0..MaxGoals) : sc[1] + sc[2] <= MaxGoals}

MatchRow(div, s, d, h, a, sc) ==
    [Div |-> div, Season |-> s, Date |-> d, HomeTeam |-> h, AwayTeam |-> a,
     FTHG |-> sc[1], FTAG |-> sc[2]]

\* the sequences over S of length at most n
SeqsUpTo(S, n) == UNION {[1..k -> S] : k \in 0..n}

---------------------------------------------------------------------------
(* DataFrames *)

None == [none |-> TRUE]

Frame(cols, rows) == [columns |-> cols, rows |-> rows]

\* pd.DataFrame(records): no records give a frame with no columns at all
DataFrame(cols, records) ==
    IF records = <<>> THEN Frame(<<>>, <<>>) ELSE Frame(cols, records)

RECURSIVE Flatten(_)
Flatten(ss) == IF ss = <<>> THEN <<>> ELSE Head(ss) \o Flatten(Tail(ss))

\* Series.unique(): the distinct values in order of first appearance
RECURSIVE Unique(_)
Unique(s) ==
    IF s = <<>> THEN <<>>
    ELSE LET rest == Unique(SubSeq(s, 1, Len(s) - 1))
             x == s[Len(s)]
         IN  IF x \in Range(rest) THEN rest ELSE Append(rest, x)

\* s[:k] of Python: a negative k counts from the end
SliceTo(s, k) ==
    LET stop == IF k < 0 THEN (IF Len(s) + k < 0 THEN 0 ELSE Len(s) + k)
                ELSE IF k < Len(s) THEN k ELSE Len(s)
    IN  SubSeq(s, 1, stop)

Column(frame, c) == [i \in 1..Len(frame.rows) |-> frame.rows[i][c]]

\* pd.merge(left, right, on=key): inner join, the order of the left rows kept;
\* a column other than the key that both sides have is kept twice, as c_x and c_y
MergeColumns(left, right, key) ==
    LET overlap == (Range(left.columns) \cap Range(right.columns)) \ {key}
        LName(c) == IF c \in overlap THEN c \o "_x" ELSE c
        RName(c) == IF c \in overlap THEN c \o "_y" ELSE c
    IN  [i \in 1..Len(left.columns) |-> LName(left.columns[i])]
        \o LET rc == SelectSeq(right.columns, LAMBDA c : c # key)
           IN  [i \in 1..Len(rc) |-> RName(rc[i])]

\* The rows of the join: each left row with each right row that on_key pairs
\* it with, the left rows in their order
JoinRows(left, right, key, on_key) ==
    LET overlap == (Range(left.columns) \cap Range(right.columns)) \ {key}
        LName(c) == IF c \in overlap THEN c \o "_x" ELSE c
        RName(c) == IF c \in overlap THEN c \o "_y" ELSE c
        lcols == Range(left.columns)
        rcols == Range(right.columns) \ {key}
        names == {LName(c) : c \in lcols} \cup {RName(c) : c \in rcols}
        Joined(l, r) ==
            [n \in names |->
                IF \E c \in lcols : LName(c) = n
                THEN l[CHOOSE c \in lcols : LName(c) = n]
                ELSE r[CHOOSE c \in rcols : RName(c) = n]]
        Matching(l) == SelectSeq(right.rows, LAMBDA r : on_key => r[key] = l[key])
    IN  Flatten([i \in 1..Len(left.rows) |->
            [j \in 1..Len(Matching(left.rows[i])) |->
                Joined(left.rows[i], Matching(left.rows[i])[j])]])

MergeRowsCross(left, right, key) == JoinRows(left, right, key, FALSE)
MergeRows(left, right, key) == JoinRows(left, right, key, TRUE)

\* pd.merge raises KeyError when either side has no column named key
MergeRaises(left, right, key) ==
    key \notin Range(left.columns) \/ key \notin Range(right.columns)

Merge(left, right, key) ==
    Frame(MergeColumns(left, right, key), MergeRows(left, right, key))

---------------------------------------------------------------------------
(* get_season_data *)

AllowedDivs == {"D1", "E0"}

\* SELECT * FROM Matches WHERE Season = {season} AND Div in ('D1', 'E0')
SeasonQuery(table, s) ==
    SelectSeq(table, LAMBDA r : r.Season = s /\ r.Div \in AllowedDivs)

\* df = pd.DataFrame(c.fetchall()); df.columns = [...]: with no row fetched the
\* frame has no column and the assignment of the column names raises ValueError
get_season_data ==
    /\ pc = "get_season_data"
    /\ LET fetched == SeasonQuery(Matches, season)
           df == DataFrame(MatchColumns, fetched)
       IN  IF Len(df.columns) # Len(MatchColumns)
           THEN /\ pc' = "raised"
                /\ error' = "ValueError"
                /\ UNCHANGED match_data
           ELSE /\ pc' = "unique_dates"
                /\ match_data' = Frame(MatchColumns, df.rows)
                /\ UNCHANGED error
    /\ UNCHANGED <<entry, Matches, season, limit_api_calls, unique_match_dates,
                   pending, data, calls, rain_days, enriched, rejoined,
                   pandas_out, temp_rain_stats, sqlite_out>>


---------------------------------------------------------------------------
(* match_rain_data and rain_dates *)

\* match_data['Date'].unique()[:limit_api_calls]
unique_dates ==
    /\ pc = "unique_dates"
    /\ unique_match_dates' =
           SliceTo(Unique(Column(match_data, "Date")), limit_api_calls)
    /\ pc' = "rain_dates"
    /\ UNCHANGED <<entry, Matches, season, limit_api_calls, error, match_data,
                   pending, data, calls, rain_days, enriched, rejoined,
                   pandas_out, temp_rain_stats, sqlite_out>>

Orderings(S) ==
    {p \in [1..Cardinality(S) -> S] : \A i, j \in 1..Cardinality(S) : p[i] = p[j] => i = j}

\* for date in set(unique_dates): each distinct date once, in an order the
\* language does not fix
IterationOrdersOfList(dates) == {dates}
IterationOrders(dates) == Orderings(Range(dates))

\* data = []; the loop is entered
rain_dates ==
    /\ pc = "rain_dates"
    /\ \E order \in IterationOrders(unique_match_dates) : pending' = order
    /\ data' = <<>>
    /\ pc' = "loop"
    /\ UNCHANGED <<entry, Matches, season, limit_api_calls, error, match_data,
                   unique_match_dates, calls, rain_days, enriched, rejoined,
                   pandas_out, temp_rain_stats, sqlite_out>>

\* What one request to the weather service can come to: requests.get raises, the
\* JSON has no daily.data[0], or the day's record with its icon, if it has one
FetchErrors == {"ConnectionError", "KeyError: 'daily'"}
Icons == {"rain", "snow", "no icon"}
Responses == FetchErrors \cup Icons

\* get_weather_data: an exception of the request or of the parse is not caught
FetchRaisesNever(response) == FALSE
FetchRaises(response) == response \in FetchErrors

\* rain = icon == 'rain'
RainOf(icon) == icon = "rain"

\* one iteration of the loop of rain_dates: date, rain = get_weather_data(...)
get_weather_data ==
    /\ pc = "loop"
    /\ pending # <<>>
    /\ \E response \in Responses :
          LET date == Head(pending)
          IN  /\ calls' = Append(calls, [Date |-> date, response |-> response])
              /\ IF FetchRaises(response)
                 THEN /\ pc' = "raised"
                      /\ error' = response
                      /\ UNCHANGED <<data, pending>>
                 ELSE /\ data' = Append(data, [Date |-> date, rain |-> RainOf(response)])
                      /\ pending' = Tail(pending)
                      /\ UNCHANGED <<pc, error>>
    /\ UNCHANGED <<entry, Matches, season, limit_api_calls, match_data,
                   unique_match_dates, rain_days, enriched, rejoined,
                   pandas_out, temp_rain_stats, sqlite_out>>

\* return pd.DataFrame(data)
rain_dates_return ==
    /\ pc = "loop"
    /\ pending = <<>>
    /\ rain_days' = DataFrame(<<"Date", "rain">>, data)
    /\ pc' = IF entry = "rain_dates" THEN "done" ELSE "merge"
    /\ UNCHANGED <<entry, Matches, season, limit_api_calls, error, match_data,
                   unique_match_dates, pending, data, calls, enriched, rejoined,
                   pandas_out, temp_rain_stats, sqlite_out>>

\* return pd.merge(match_data, rain_days, on='Date')
merge ==
    /\ pc = "merge"
    /\ IF MergeRaises(match_data, rain_days, "Date")
       THEN /\ pc' = "raised"
            /\ error' = "KeyError: 'Date'"
            /\ UNCHANGED enriched
       ELSE /\ enriched' = Merge(match_data, rain_days, "Date")
            /\ pc' = "joined"
            /\ UNCHANGED error
    /\ UNCHANGED <<entry, Matches, season, limit_api_calls, match_data,
                   unique_match_dates, pending, data, calls, rain_days, rejoined,
                   pandas_out, temp_rain_stats, sqlite_out>>

\* The join of match_rain_data applied once more, to its own result and the same
\* rain table
rejoin ==
    /\ pc = "joined"
    /\ entry = "match_rain_data"
    /\ rejoined' = Merge(enriched, rain_days, "Date")
    /\ pc' = "rejoined"
    /\ UNCHANGED <<entry, Matches, season, limit_api_calls, error, match_data,
                   unique_match_dates, pending, data, calls, rain_days, enriched,
                   pandas_out, temp_rain_stats, sqlite_out>>

---------------------------------------------------------------------------
(* calculate_aggregate_stats_pandas *)

NaN == -1

Val(b) == IF b THEN 1 ELSE 0

RECURSIVE Sum(_)
Sum(s) == IF s = <<>> THEN 0 ELSE Head(s) + Sum(Tail(s))

MaxOf(S) == CHOOSE x \in S : \A y \in S : y <= x

\* the greatest string of S, the strings of S being among those of order
MaxString(order, S) == order[MaxOf({Rank(order, x) : x \in S})]

\* df.groupby([col]): the keys, and the rows of one key
GroupKeys(rows, col) == {rows[i][col] : i \in 1..Len(rows)}
Group(rows, col, k) == SelectSeq(rows, LAMBDA r : r[col] = k)

\* n / d rounded to the nearest multiple of 1 / scale, a tie to the even one
\* (numpy's round); n / 0 is NaN (n is 0 whenever d is)
RoundHalfEven(n, d, scale) ==
    IF d = 0 THEN NaN
    ELSE LET q == (n * scale) \div d
             r == (n * scale) % d
         IN  IF 2 * r < d THEN q
             ELSE IF 2 * r > d THEN q + 1
             ELSE IF q % 2 = 0 THEN q ELSE q + 1

\* home_df['home_win'] = home_df['FTHG'] > home_df['FTAG']
home_win_or_draw(r) == r.FTHG >= r.FTAG
home_win(r) == r.FTHG > r.FTAG

\* away_df['away_win'] = away_df['FTAG'] > away_df['FTHG']
away_win_by_home_goals(r) == r.FTHG > r.FTAG
away_win(r) == r.FTAG > r.FTHG

\* home_df.groupby(['HomeTeam']).sum()[['FTHG', 'home_win', 'rain_home_win', 'rain']]
home_stats(rows, t) ==
    LET g == Group(rows, "HomeTeam", t)
    IN  [FTHG |-> Sum([i \in 1..Len(g) |-> g[i].FTHG]),
         home_win |-> Sum([i \in 1..Len(g) |-> Val(home_win(g[i]))]),
         rain_home_win |-> Sum([i \in 1..Len(g) |-> Val(home_win(g[i]) /\ g[i].rain)]),
         rain |-> Sum([i \in 1..Len(g) |-> Val(g[i].rain)])]

\* away_df.groupby(['AwayTeam']).sum()[['FTAG', 'away_win', 'rain_away_win', 'rain']]
away_stats(rows, t) ==
    LET g == Group(rows, "AwayTeam", t)
    IN  [FTAG |-> Sum([i \in 1..Len(g) |-> g[i].FTAG]),
         away_win |-> Sum([i \in 1..Len(g) |-> Val(away_win(g[i]))]),
         rain_away_win |-> Sum([i \in 1..Len(g) |-> Val(away_win(g[i]) /\ g[i].rain)]),
         rain |-> Sum([i \in 1..Len(g) |-> Val(g[i].rain)])]

\* df_['rain_y'] + df_['rain_x']: the rain games away and at home
rain_games_home_only(h, a) == h.rain
rain_games(h, a) == a.rain + h.rain

\* The record of team t: the home and away statistics merged on the team, wins,
\* goals and rain_win_pct, and Season and Div from df.groupby('HomeTeam').max()
team_record(rows, t) ==
    LET h == home_stats(rows, t)
        a == away_stats(rows, t)
        g == Group(rows, "HomeTeam", t)
    IN  [team_name |-> t,
         wins |-> h.home_win + a.away_win,
         goals |-> h.FTHG + a.FTAG,
         rain_win_pct |->
             RoundHalfEven(h.rain_home_win + a.rain_away_win, rain_games(h, a), 1000),
         season |-> MaxOf({g[i].Season : i \in 1..Len(g)}),
         division |-> MaxString(DivOrder, {g[i].Div : i \in 1..Len(g)})]

\* pd.merge(home_stats, away_stats, left_index=True, right_index=True): the teams
\* that are a HomeTeam and an AwayTeam, in the order of the group keys
merged_teams(rows) ==
    SelectSeq(TeamOrder, LAMBDA t : t \in GroupKeys(rows, "HomeTeam")
                                    /\ t \in GroupKeys(rows, "AwayTeam"))

\* final_df.to_dict(orient='records')
aggregate_pandas(df) ==
    LET teams == merged_teams(df.rows)
    IN  [i \in 1..Len(teams) |-> team_record(df.rows, teams[i])]

calculate_aggregate_stats_pandas ==
    /\ pc = "joined"
    /\ pandas_out' = aggregate_pandas(enriched)
    /\ pc' = "pandas_done"
    /\ UNCHANGED <<entry, Matches, season, limit_api_calls, error, match_data,
                   unique_match_dates, pending, data, calls, rain_days, enriched,
                   rejoined, temp_rain_stats, sqlite_out>>

---------------------------------------------------------------------------
(* calculate_aggregate_stats_sqlite *)

\* match_stats_df.to_sql('temp_rain_stats', if_exists='replace'): the frame's
\* index becomes a column and a boolean becomes the integer 0 or 1
to_sql(df) ==
    Frame(<<"index">> \o df.columns,
          [i \in 1..Len(df.rows) |->
              [c \in {"index"} \cup Range(df.columns) |->
                  IF c = "index" THEN i - 1
                  ELSE IF c = "rain" THEN Val(df.rows[i][c])
                  ELSE df.rows[i][c]]])

\* round(X, 2) of sqlite: a tie goes away from zero; a division by 0 is NULL
RoundHalfUp(n, d, scale) ==
    IF d = 0 THEN NaN
    ELSE LET q == (n * scale) \div d
             r == (n * scale) % d
         IN  IF 2 * r < d THEN q ELSE q + 1

\* the subquery GROUP BY HomeTeam, for one team
h_stats(rows, t) ==
    LET g == Group(rows, "HomeTeam", t)
    IN  [h_win |-> Sum([i \in 1..Len(g) |-> Val(g[i].FTHG > g[i].FTAG)]),
         h_rain_win |-> Sum([i \in 1..Len(g) |-> Val(g[i].FTHG > g[i].FTAG /\ g[i].rain = 1)]),
         h_rain_games |-> Sum([i \in 1..Len(g) |-> g[i].rain]),
         h_goals_for |-> Sum([i \in 1..Len(g) |-> g[i].FTHG]),
         Season |-> MaxOf({g[i].Season : i \in 1..Len(g)})]

\* the subquery GROUP BY AwayTeam, for one team
a_stats(rows, t) ==
    LET g == Group(rows, "AwayTeam", t)
    IN  [a_win |-> Sum([i \in 1..Len(g) |-> Val(g[i].FTAG > g[i].FTHG)]),
         a_rain_win |-> Sum([i \in 1..Len(g) |-> Val(g[i].FTAG > g[i].FTHG /\ g[i].rain = 1)]),
         a_rain_games |-> Sum([i \in 1..Len(g) |-> g[i].rain]),
         a_goals_for |-> Sum([i \in 1..Len(g) |-> g[i].FTAG])]

\* One row of the outer SELECT. Its Div is the first column named Div of the home
\* subquery, a bare column beside two MAX(): the Div of some row of the group
club_record(rows, t, div) ==
    LET h == h_stats(rows, t)
        a == a_stats(rows, t)
    IN  [Club |-> t,
         Div |-> div,
         Season |-> h.Season,
         W |-> h.h_win + a.a_win,
         GF |-> h.h_goals_for + a.a_goals_for,
         rain_win_pct |->
             RoundHalfUp(a.a_rain_win + h.h_rain_win, h.h_rain_games + a.a_rain_games, 100)]

\* JOIN ... ON (HomeTeam==AwayTeam)
joined_clubs(rows) == GroupKeys(rows, "HomeTeam") \cap GroupKeys(rows, "AwayTeam")

\* What the query can return: ORDER BY GF DESC leaves the order of clubs with
\* equal GF open, as GROUP BY leaves the row a bare column is read from
agg_query(table) ==
    LET clubs == joined_clubs(table.rows)
        divs(t) == {r.Div : r \in Range(Group(table.rows, "HomeTeam", t))}
    IN  {[i \in 1..Len(order) |-> club_record(table.rows, order[i], div[order[i]])] :
            order \in Orderings(clubs),
            div \in {f \in [clubs -> Range(DivOrder)] : \A t \in clubs : f[t] \in divs(t)}}

Sorted(recs) == \A i, j \in 1..Len(recs) : i < j => recs[i].GF >= recs[j].GF

\* c.execute(agg_query) can raise (sqlite3.OperationalError: the database is
\* locked, the disk is full); DROP TABLE comes after it, outside any finally
Drops(query_raises) == ~query_raises

calculate_aggregate_stats_sqlite ==
    /\ pc = "pandas_done"
    /\ \E query_raises \in BOOLEAN :
          /\ temp_rain_stats' =
                 IF Drops(query_raises) THEN None ELSE to_sql(enriched)
          /\ IF query_raises
             THEN /\ pc' = "raised"
                  /\ error' = "OperationalError"
                  /\ UNCHANGED sqlite_out
             ELSE /\ \E result \in agg_query(to_sql(enriched)) :
                        Sorted(result) /\ sqlite_out' = result
                  /\ pc' = "done"
                  /\ UNCHANGED error
    /\ UNCHANGED <<entry, Matches, season, limit_api_calls, match_data,
                   unique_match_dates, pending, data, calls, rain_days, enriched,
                   rejoined, pandas_out>>

---------------------------------------------------------------------------
(* Specifications *)

\* The rows a store is drawn from: the two fixtures of a pair of teams, of the
\* season and division asked for or of another season or division
StoreKinds == {<<2011, "D1">>, <<2011, "E0">>, <<2012, "D1">>, <<2011, "SP1">>}
Fixtures == {<<"A", "B", <<2, 1>>>>, <<"B", "A", <<0, 3>>>>}

StoreRows ==
    {MatchRow(k[2], k[1], d, f[1], f[2], f[3]) :
        k \in StoreKinds, d \in MatchDates, f \in Fixtures}

Limits == (-1)..(Cardinality(MatchDates) + 1)

Idle ==
    /\ error = "none"
    /\ match_data = None
    /\ pending = <<>>
    /\ data = <<>>
    /\ calls = <<>>
    /\ rain_days = None
    /\ rejoined = None
    /\ pandas_out = None
    /\ temp_rain_stats = None
    /\ sqlite_out = None

\* match_rain_data(database, season, password, limit_api_calls) on a store
Init ==
    /\ entry = "match_rain_data"
    /\ Matches \in SeqsUpTo(StoreRows, MaxRows)
    /\ season \in Seasons
    /\ limit_api_calls \in Limits
    /\ pc = "get_season_data"
    /\ unique_match_dates = <<>>
    /\ enriched = None
    /\ Idle

Next ==
    \/ get_season_data
    \/ unique_dates
    \/ rain_dates
    \/ get_weather_data
    \/ rain_dates_return
    \/ merge
    \/ rejoin
    \/ calculate_aggregate_stats_pandas
    \/ calculate_aggregate_stats_sqlite

Spec == Init /\ [][Next]_vars

\* rain_dates(unique_dates, password) on a list of dates
InitRainDates ==
    /\ entry = "rain_dates"
    /\ Matches = <<>>
    /\ season = 2011
    /\ limit_api_calls = -1
    /\ pc = "rain_dates"
    /\ unique_match_dates \in SeqsUpTo(Dates, MaxDates)
    /\ enriched = None
    /\ Idle

NextRainDates ==
    \/ rain_dates
    \/ get_weather_data
    \/ rain_dates_return

SpecRainDates == InitRainDates /\ [][NextRainDates]_vars

\* the two aggregators on an enriched match table
\* (an aggregator reads a row's rain flag and never its date: a table of rainy
\* matches on the first date and dry ones on the second stands for every
\* enriched table with the same flags)
AggRows ==
    {r \in {MatchRow("D1", 2011, d, h, a, sc) :
                d \in MatchDates, h \in Teams, a \in Teams, sc \in Scores} :
        r.HomeTeam # r.AwayTeam}

RainFrame ==
    Frame(<<"Date", "rain">>,
          <<[Date |-> DateOrder[1], rain |-> TRUE],
            [Date |-> DateOrder[2], rain |-> FALSE]>>)

InitAggregate ==
    /\ entry = "aggregate"
    /\ Matches = <<>>
    /\ season = 2011
    /\ limit_api_calls = -1
    /\ pc = "joined"
    /\ unique_match_dates = <<>>
    /\ enriched \in
           {Merge(Frame(MatchColumns, t), RainFrame, "Date") :
               t \in SeqsUpTo(AggRows, MaxRows)}
    /\ Idle

NextAggregate ==
    \/ calculate_aggregate_stats_pandas
    \/ calculate_aggregate_stats_sqlite

SpecAggregate == InitAggregate /\ [][NextAggregate]_vars

---------------------------------------------------------------------------
(* Properties *)

Indices(q) == 1..Len(q)

\* the matches of the table that team t played in
Played(rows, t) == {i \in Indices(rows) : rows[i].HomeTeam = t \/ rows[i].AwayTeam = t}
Won(rows, t) ==
    {i \in Indices(rows) :
        \/ rows[i].HomeTeam = t /\ rows[i].FTHG > rows[i].FTAG
        \/ rows[i].AwayTeam = t /\ rows[i].FTAG > rows[i].FTHG}
RainPlayed(rows, t) == {i \in Played(rows, t) : rows[i].rain}
RainWon(rows, t) == {i \in Won(rows, t) : rows[i].rain}

RECURSIVE GoalsFor(_, _, _)
GoalsFor(rows, t, n) ==
    IF n = 0 THEN 0
    ELSE GoalsFor(rows, t, n - 1)
         + (IF rows[n].HomeTeam = t THEN rows[n].FTHG ELSE 0)
         + (IF rows[n].AwayTeam = t THEN rows[n].FTAG ELSE 0)

TeamsOf(rows) ==
    {rows[i].HomeTeam : i \in Indices(rows)} \cup {rows[i].AwayTeam : i \in Indices(rows)}

\* every team of the table has a home appearance, an away appearance and a
\* rainy match
FullyPaired(rows) ==
    \A t \in TeamsOf(rows) :
        /\ \E i \in Indices(rows) : rows[i].HomeTeam = t
        /\ \E i \in Indices(rows) : rows[i].AwayTeam = t
        /\ RainPlayed(rows, t) # {}

\* C1: on an enriched table in which every team has a home appearance, an away
\* appearance and a rainy match, the two aggregators return the same teams, each
\* once, and for each team the same wins and the same goals
AggregatorsAgree ==
    (pc = "done" /\ FullyPaired(enriched.rows)) =>
        /\ {pandas_out[i].team_name : i \in Indices(pandas_out)}
               = {sqlite_out[j].Club : j \in Indices(sqlite_out)}
        /\ Len(pandas_out) = Len(sqlite_out)
        /\ Len(pandas_out) = Cardinality(TeamsOf(enriched.rows))
        /\ \A i \in Indices(pandas_out), j \in Indices(sqlite_out) :
              pandas_out[i].team_name = sqlite_out[j].Club =>
                  /\ pandas_out[i].wins = sqlite_out[j].W
                  /\ pandas_out[i].goals = sqlite_out[j].GF

\* both aggregators ran on a table where both teams meet home and away, one of the
\* matches a draw
AggregatorsAgreeWitness ==
    /\ pc = "done"
    /\ FullyPaired(enriched.rows)
    /\ Len(pandas_out) = 2
    /\ \E i \in Indices(enriched.rows) : enriched.rows[i].FTHG = enriched.rows[i].FTAG

\* C2: with limit_api_calls = -1 the weather of every distinct match date is
\* fetched and every match row read from the store is in the joined output
NoLimitKeepsEveryRow ==
    (entry = "match_rain_data" /\ limit_api_calls = -1 /\ pc = "joined") =>
        /\ {calls[i].Date : i \in Indices(calls)} = Range(Column(match_data, "Date"))
        /\ Len(enriched.rows) = Len(match_data.rows)

\* C3: rain_dates never requests a date twice nor a date that is not in its
\* input, and when it returns it has made one request per distinct date and its
\* table holds one (date, rain) row per distinct date
OneCallPerDistinctDate ==
    /\ \A i, j \in Indices(calls) : calls[i].Date = calls[j].Date => i = j
    /\ \A i \in Indices(calls) : calls[i].Date \in Range(unique_match_dates)
    /\ (entry = "rain_dates" /\ pc = "done") =>
          /\ Len(calls) = Cardinality(Range(unique_match_dates))
          /\ Len(rain_days.rows) = Cardinality(Range(unique_match_dates))
          /\ {rain_days.rows[i].Date : i \in Indices(rain_days.rows)}
                 = Range(unique_match_dates)
          /\ \A i \in Indices(rain_days.rows) :
                 /\ DOMAIN rain_days.rows[i] = {"Date", "rain"}
                 /\ rain_days.rows[i].rain \in BOOLEAN

\* rain_dates returned on a list that names a date more than once
OneCallPerDistinctDateWitness ==
    /\ entry = "rain_dates"
    /\ pc = "done"
    /\ Len(unique_match_dates) > Cardinality(Range(unique_match_dates))
    /\ Cardinality(Range(unique_match_dates)) >= 2

\* C4: a team's reported wins never exceed the matches it played, and with a
\* rain game played its rain_win_pct is in [0, 1], from either aggregator
WinsAndPctInRange ==
    /\ pc \in {"pandas_done", "done"} =>
          \A i \in Indices(pandas_out) :
              LET t == pandas_out[i].team_name
              IN  /\ pandas_out[i].wins <= Cardinality(Played(enriched.rows, t))
                  /\ RainPlayed(enriched.rows, t) # {} =>
                        /\ pandas_out[i].rain_win_pct >= 0
                        /\ pandas_out[i].rain_win_pct <= 1000
    /\ pc = "done" =>
          \A j \in Indices(sqlite_out) :
              LET t == sqlite_out[j].Club
              IN  /\ sqlite_out[j].W <= Cardinality(Played(enriched.rows, t))
                  /\ RainPlayed(enriched.rows, t) # {} =>
                        /\ sqlite_out[j].rain_win_pct >= 0
                        /\ sqlite_out[j].rain_win_pct <= 100

\* both aggregators report a team that won one of its two rain games
WinsAndPctInRangeWitness ==
    /\ pc = "done"
    /\ \E i \in Indices(pandas_out), j \in Indices(sqlite_out) :
          /\ pandas_out[i].team_name = sqlite_out[j].Club
          /\ pandas_out[i].rain_win_pct = 500
          /\ sqlite_out[j].rain_win_pct = 50
          /\ pandas_out[i].wins = 1

\* the two matches of the example: A-B 2:1 in rain, B-A 0:3 without rain
ExampleRows ==
    <<[Div |-> "D1", Season |-> 2011, Date |-> DateOrder[1], HomeTeam |-> "A",
       AwayTeam |-> "B", FTHG |-> 2, FTAG |-> 1, rain |-> TRUE],
      [Div |-> "D1", Season |-> 2011, Date |-> DateOrder[2], HomeTeam |-> "B",
       AwayTeam |-> "A", FTHG |-> 0, FTAG |-> 3, rain |-> FALSE]>>

\* C5: in the output of calculate_aggregate_stats_pandas a team's wins are its
\* home wins plus its away wins, its goals the goals it scored at home plus those
\* it scored away, and its rain_win_pct the rain wins over the rain games (to the
\* nearest thousandth); on the example table team A has wins 2, goals 5 and
\* rain_win_pct 1.0
PandasTotals ==
    pc \in {"pandas_done", "done"} =>
        /\ \A i \in Indices(pandas_out) :
              LET t == pandas_out[i].team_name
                  n == Cardinality(RainWon(enriched.rows, t))
                  d == Cardinality(RainPlayed(enriched.rows, t))
                  diff == 1000 * n - pandas_out[i].rain_win_pct * d
              IN  /\ pandas_out[i].wins = Cardinality(Won(enriched.rows, t))
                  /\ pandas_out[i].goals = GoalsFor(enriched.rows, t, Len(enriched.rows))
                  /\ d > 0 => (2 * diff <= d /\ -2 * diff <= d)
                  /\ d = 0 => pandas_out[i].rain_win_pct = NaN
        /\ enriched.rows = ExampleRows =>
              \E i \in Indices(pandas_out) :
                  /\ pandas_out[i].team_name = "A"
                  /\ pandas_out[i].wins = 2
                  /\ pandas_out[i].goals = 5
                  /\ pandas_out[i].rain_win_pct = 1000

\* the pandas aggregator ran on the example table
PandasTotalsWitness ==
    /\ pc = "pandas_done"
    /\ enriched.rows = ExampleRows
    /\ Len(pandas_out) = 2

\* C6: a store with no match row of the season does not make the run raise, and
\* the aggregate computed for it is the empty list
EmptySeasonDoesNotRaise ==
    (entry = "match_rain_data" /\ SeasonQuery(Matches, season) = <<>>) =>
        /\ pc # "raised"
        /\ error = "none"
        /\ pc \in {"pandas_done", "done"} => pandas_out = <<>>

\* C7: once calculate_aggregate_stats_sqlite has finished, by returning or by
\* raising, table temp_rain_stats does not exist
StagingTableDropped ==
    (pc = "done" \/ (pc = "raised" /\ error = "OperationalError")) =>
        temp_rain_stats = None

\* C8: joining the joined table with the same rain table once more gives the
\* joined table again, rows and columns
JoinIdempotent ==
    pc = "rejoined" => rejoined = enriched

\* C8, amended: the second join keeps the rows, their order and every match
\* column, and carries the rain flag twice, as rain_x and rain_y
JoinTwiceDoublesRain ==
    pc = "rejoined" =>
        /\ rejoined.columns = MatchColumns \o <<"rain_x", "rain_y">>
        /\ enriched.columns = MatchColumns \o <<"rain">>
        /\ Len(rejoined.rows) = Len(enriched.rows)
        /\ \A i \in Indices(rejoined.rows) :
              /\ \A c \in Range(MatchColumns) : rejoined.rows[i][c] = enriched.rows[i][c]
              /\ rejoined.rows[i]["rain_x"] = enriched.rows[i]["rain"]
              /\ rejoined.rows[i]["rain_y"] = enriched.rows[i]["rain"]

\* the second join ran on a table the first join had dropped a row from
JoinTwiceWitness ==
    /\ pc = "rejoined"
    /\ Len(rejoined.rows) >= 1
    /\ Len(match_data.rows) > Len(enriched.rows)

\* the rows of match_data played on one of the first n distinct dates, each with
\* the rain flag collected for its date
ExpectedJoin(n) ==
    LET all == Unique(Column(match_data, "Date"))
        first == {all[i] : i \in 1..(IF n < Len(all) THEN n ELSE Len(all))}
        kept == SelectSeq(match_data.rows, LAMBDA r : r.Date \in first)
        flag(d) == (CHOOSE o \in Range(data) : o.Date = d).rain
    IN  [i \in 1..Len(kept) |->
            [c \in Range(MatchColumns) \cup {"rain"} |->
                IF c = "rain" THEN flag(kept[i].Date) ELSE kept[i][c]]]

\* C9: with limit_api_calls = N >= 0, once the weather of the first N distinct
\* dates is collected match_rain_data returns, without an error, exactly the match
\* rows of those dates with their rain flags
LimitKeepsFirstDates ==
    (entry = "match_rain_data" /\ limit_api_calls >= 0
         /\ (pc = "joined" \/ error = "KeyError: 'Date'")) =>
        /\ pc = "joined"
        /\ {calls[i].Date : i \in Indices(calls)}
               = Range(SliceTo(Unique(Column(match_data, "Date")), limit_api_calls))
        /\ enriched.rows = ExpectedJoin(limit_api_calls)

\* C10: a failed request is the last one made: rain_dates has ended with that
\* error and returned no table; and no request is made before the one before it
\* has given its result
FailsFast ==
    /\ Len(calls) <= Len(data) + 1
    /\ \A i \in Indices(calls) :
          calls[i].response \in FetchErrors =>
              /\ i = Len(calls)
              /\ pc = "raised"
              /\ error = calls[i].response
              /\ rain_days = None

\* a request failed after another had succeeded, with a date still to visit
FailsFastWitness ==
    /\ entry = "rain_dates"
    /\ pc = "raised"
    /\ error \in FetchErrors
    /\ data # <<>>
    /\ Len(pending) >= 2

=============================================================================
